---- MODULE Spec2Model ----
(***************************************************************************)
(* Model of dependencies/packageswithdeps.go (gocmd): the recursive        *)
(* populate-and-publish of a Go package and of its transitive              *)
(* dependencies against a shared DependenciesCache.                        *)
(*                                                                         *)
(* A top-level call of PopulateModAndPublish is a thread with a call       *)
(* stack of PackageWithDeps frames.  Every access to the shared cache map  *)
(* or to the shared counters is one step; the code between two shared      *)
(* accesses is local to the frame and belongs to the step that follows.    *)
(***************************************************************************)
EXTENDS Integers, Sequences, FiniteSets, TLC

\* ------------------------------------------------------------------ bounds

\* Deepest call stack a thread may build.  The recursion of the code stops
\* earlier by itself (DepthWithinBound below); the cap only keeps a broken
\* variant of the expansion finite.
MaxDepth == 4

\* External collaborator calls that may fail during one behaviour.
MaxFaults == 1

\* ------------------------------------------------------- packages and edges

Names == {"A", "B", "C"}
Versions == {"v1"}

\* Package.GetId(): "path:version", kept as the pair its Split on ":" gives.
Ids == Names \X Versions

\* A graph edge "path@version" is the sequence of its tokens, so that
\* strings.Split(edge, "@") has something to do.
Edge(n) == <<n, "@", "v1">>

RECURSIVE SplitFrom(_, _, _)
SplitFrom(s, i, cur) ==
    IF i > Len(s) THEN <<cur>>
    ELSE IF s[i] = "@" THEN <<cur>> \o SplitFrom(s, i + 1, <<>>)
    ELSE SplitFrom(s, i + 1, Append(cur, s[i]))

\* strings.Split(transitiveDependency, "@"): the parts between separators,
\* each part the sequence of its tokens.
Split(s) == SplitFrom(s, 1, <<>>)

\* getDependencyName: the module path with the "!x" escape of the module
\* cache turned back into the upper-case letter.
getDependencyName(part) ==
    IF part = <<"!b">> THEN "B"
    ELSE IF part = <<"!c">> THEN "C"
    ELSE IF Len(part) = 1 THEN part[1]
    ELSE "?"

\* ------------------------------------------------------- manifest contents

\* A manifest is the sequence of its lines (strings.Split on "\n"); the
\* empty byte slice is the single empty line.
GenLine == "// Generated by"
NilContent == <<"">>
BareContent == <<"module">>
MarkedContent == <<GenLine, "", "module">>
FullContent == <<"module", "require">>
InitContent == <<GenLine, "", "module">>
InitReqContent == <<GenLine, "", "module", "require">>

\* The contents a Package may arrive with (local module cache, download or
\* Artifactory).
ModContents == {BareContent, MarkedContent, FullContent}

\* regExp.GetNotEmptyModRegex() on one line: a require line.
NotEmptyLine(l) == l \in {"require", "tidy-require"}

\* regExp.GetGeneratedBy() on one line.
GeneratedByLine(l) == l = GenLine

\* PatternMatched with the not-empty pattern.
PatternMatchedNotEmpty(c) == \E i \in 1..Len(c) : NotEmptyLine(c[i])

\* PatternMatched with the generated-by pattern.
PatternMatchedGeneratedBy(c) == \E i \in 1..Len(c) : GeneratedByLine(c[i])

\* editedBy.FindString(string(content)) != "".
ContainsMarker(c) == \E i \in 1..Len(c) : GeneratedByLine(c[i])

\* What `go mod tidy` leaves in the workspace's go.mod.
TidyOutput(file) == Append(file, "tidy-require")

\* ------------------------------------------------------------- the world

\* The answer of `go mod graph` for each package: a set of edges.
GraphOf(a, b, c) ==
    [n \in Names |-> IF n = "A" THEN a ELSE IF n = "B" THEN b ELSE c]

\* Graphs resolved by one top-level call (root A): a cycle through the root,
\* a cycle of three, a diamond whose arms also refer to each other, malformed
\* edges next to a good one, and two spellings of one module path.
SeqGraphs ==
    { GraphOf({Edge("B")}, {Edge("A")}, {}),
      GraphOf({Edge("B")}, {Edge("C")}, {Edge("A")}),
      GraphOf({Edge("B"), Edge("C")}, {Edge("C")}, {Edge("B")}),
      GraphOf({<<"bad">>, Edge("B"), <<"C", "@", "v1", "@", "x">>}, {}, {}),
      GraphOf({Edge("B"), Edge("!b")}, {Edge("C")}, {}) }

\* Graphs resolved by two top-level calls (roots A and B) that share the
\* cache: both reach C, and each reaches the other's root.
ConcGraphs ==
    { GraphOf({Edge("C")}, {Edge("C")}, {}),
      GraphOf({Edge("B")}, {Edge("A")}, {}) }

Threads == {1, 2}

\* The package a top-level call is made on.
Root(t) == IF t = 1 THEN <<"A", "v1">> ELSE <<"B", "v1">>

\* ------------------------------------------------------------------ state

VARIABLES
    nthreads,   \* top-level calls running against the one cache
    graphOf,    \* the world's dependency graph
    cache,      \* DependenciesCache.GetMap(): "absent", "false" or "true"
    total,      \* DependenciesCache counters
    success,
    failures,
    stack,      \* per thread, the frames of PopulateModAndPublish in progress
    tstate,     \* per thread: "idle", "running" or "returned"
    fatal,      \* the runtime stopped the program (concurrent map access)
    faults,     \* collaborator calls that have failed so far
    publishCalls, \* per ID, calls of Package.prepareAndPublish so far
    childCount, \* per ID, child PackageWithDeps constructed so far
    skips,      \* children skipped by populateTransitive so far
    rootPublishes, \* publish calls made by top-level frames so far
    readFailures,  \* failed reads of a stored manifest so far
    cwd,        \* the process's working directory (os.Chdir)
    intact      \* the directories that exist with their content

vars == <<nthreads, graphOf, cache, total, success, failures, stack, tstate,
          fatal, faults, publishCalls, childCount, skips, rootPublishes,
          readFailures, cwd, intact>>

NoContent == <<>>
\* The empty path "".
NoPath == <<>>

\* The directory the program was started in.
StartDir == <<"start">>

\* The relative directory ".".
Dot == <<".">>

\* filepath.Dir(path): the path without its last element, "." for "".
Dir(path) == IF path = NoPath THEN Dot ELSE SubSeq(path, 1, Len(path) - 1)

\* The directory a path names, a relative one resolved against the
\* working directory.
Resolve(dir) == IF dir = Dot THEN cwd ELSE dir

\* A workspace's lock file (go.sum): none, one without content, one with.
NoSum == [exists |-> FALSE, content |-> <<>>]
EmptySum == [exists |-> TRUE, content |-> <<>>]
FullSum == [exists |-> TRUE, content |-> <<"h1">>]

\* The lock file a package's workspace holds once its graph is computed.
SumOf(name) ==
    IF name = "A" THEN FullSum ELSE IF name = "B" THEN EmptySum ELSE NoSum

NoPend == [edge |-> <<>>, id |-> <<"", "">>, flag |-> FALSE, mod |-> NoContent]

\* A PackageWithDeps on which PopulateModAndPublish is about to run: the
\* struct's fields (Dependency.id, Dependency.modContent,
\* shouldRevertToEmptyMod, originalModContent, transitiveDependencies), the
\* locals of the call (path, published, the graph still to expand, the loop
\* index), the workspace's go.mod and go.sum, the temporary directory
\* createDependencyInTemp will hand out, and a record of what the call has
\* done.
NewFrame(id, mod) ==
    [ id |-> id, mod |-> mod, pc |-> "enter",
      tmp |-> <<0, 0>>,
      path |-> NoPath, file |-> NoContent,
      sum |-> NoSum, sumBefore |-> NoSum,
      graphDir |-> NoPath, reverted |-> FALSE,
      revert |-> FALSE, orig |-> NilContent,
      publishedAtEntry |-> FALSE, publishedAtPrepare |-> FALSE,
      seenAtEntry |-> FALSE,
      published |-> FALSE,
      output |-> {}, todo |-> {}, pend |-> NoPend,
      deps |-> <<>>, idx |-> 1,
      modAtPrepare |-> NoContent,
      initCalls |-> 0, tidyCalls |-> 0, snapshot |-> NoContent,
      tidyOutput |-> NoContent,
      publishResult |-> "none", publishedContent |-> NoContent,
      goCacheWrite |-> NoContent, marked |-> FALSE,
      outcome |-> {}, cacheWrites |-> {}, recursed |-> {}, skipped |-> {} ]

Top(t) == stack[t][Len(stack[t])]

\* Thread t is running, the program has not been stopped, and the innermost
\* call of t is at step pc.
At(t, pc) == ~fatal /\ tstate[t] = "running" /\ Top(t).pc = pc
SetTop(t, f) == [stack EXCEPT ![t] = [@ EXCEPT ![Len(@)] = f]]

\* Two concurrent top-level calls are explored with non-empty manifests and
\* with collaborators that do not fail: their interleavings are the subject
\* there.  A single call is explored with every manifest and with faults.
CallMods == IF nthreads = 1 THEN ModContents ELSE {FullContent}
FaultBudget == IF nthreads = 1 THEN MaxFaults ELSE 0

Lookup(id) == [published |-> cache[id] = "true", exists |-> cache[id] # "absent"]

BoolStr(b) == IF b THEN "true" ELSE "false"

Init ==
    /\ nthreads \in {1, 2}
    /\ graphOf \in (IF nthreads = 1 THEN SeqGraphs ELSE ConcGraphs)
    /\ cache \in (IF nthreads = 1 THEN [Ids -> {"absent", "true"}]
                                  ELSE {[i \in Ids |-> "absent"]})
    /\ total = 0 /\ success = 0 /\ failures = 0
    /\ stack = [t \in Threads |-> <<>>]
    /\ tstate = [t \in Threads |-> "idle"]
    /\ fatal = FALSE
    /\ faults = 0
    /\ publishCalls = [i \in Ids |-> 0]
    /\ childCount = [i \in Ids |-> 0]
    /\ skips = 0 /\ rootPublishes = 0 /\ readFailures = 0
    /\ cwd = StartDir
    /\ intact = {StartDir}

\* -------------------------------------------------- PopulateModAndPublish

\* createDependencyInTemp: every call unpacks into a temporary directory of
\* its own, here named after the thread and the depth of the call.
TempDir(t, depth) == <<t, depth>>

\* New (lines 35-40) sets Dependency, cachePath and transitiveDependencies
\* on its receiver and leaves the other fields: a PackageWithDeps that is
\* new has no revert flag; one that served an earlier package whose empty
\* stored manifest went through tidy still has the flag and the snapshot.
ReceiverStates ==
    IF nthreads = 1
    THEN {[revert |-> FALSE, orig |-> NilContent],
          [revert |-> TRUE, orig |-> NilContent]}
    ELSE {[revert |-> FALSE, orig |-> NilContent]}

\* The caller sets up the root PackageWithDeps (New) and calls
\* PopulateModAndPublish on it.
Start(t) ==
    /\ ~fatal /\ t <= nthreads /\ tstate[t] = "idle"
    /\ \E m \in CallMods, r \in ReceiverStates :
         stack' = [stack EXCEPT ![t] =
             <<[NewFrame(Root(t), m) EXCEPT !.tmp = TempDir(t, 1),
                                            !.revert = r.revert,
                                            !.orig = r.orig]>>]
    /\ tstate' = [tstate EXCEPT ![t] = "running"]
    /\ UNCHANGED <<nthreads, graphOf, cache, total, success, failures, fatal,
                   faults, publishCalls, childCount, skips, rootPublishes,
                   readFailures>>
    /\ UNCHANGED <<cwd, intact>>

\* What downloadModFileFromArtifactoryToLocalCache and the ReadFile of
\* updateModContent can give: no path, a stored manifest, a read error.
RefreshOutcomes ==
    {[kind |-> "nopath", mod |-> NoContent], [kind |-> "readfail", mod |-> NoContent]}
    \cup {[kind |-> "read", mod |-> m] : m \in ModContents}

\* updateModContent: the manifest after the refresh.
updateModContent(mod, r) == IF r.kind = "read" THEN r.mod ELSE mod

\* Lines 43-55: read the cache; a package already published gets its
\* manifest overwritten by the one Artifactory stores.
Enter(t) ==
    /\ At(t, "enter")
    /\ LET f == Top(t)
           published == Lookup(f.id).published
       IN IF published
          THEN \E r \in RefreshOutcomes :
                 /\ r.kind = "readfail" => faults < FaultBudget
                 /\ faults' = IF r.kind = "readfail" THEN faults + 1 ELSE faults
                 /\ failures' = IF r.kind = "readfail" THEN failures + 1 ELSE failures
                 /\ readFailures' = IF r.kind = "readfail" THEN readFailures + 1
                                    ELSE readFailures
                 /\ stack' = SetTop(t, [f EXCEPT !.pc = "prepare",
                                                !.publishedAtEntry = TRUE,
                                                !.seenAtEntry = TRUE,
                                                !.mod = updateModContent(f.mod, r)])
          ELSE /\ stack' = SetTop(t, [f EXCEPT !.pc = "prepare",
                                  !.seenAtEntry = Lookup(f.id).exists])
               /\ UNCHANGED <<faults, failures, readFailures>>
    /\ UNCHANGED <<nthreads, graphOf, cache, total, success, tstate, fatal,
                   publishCalls, childCount, skips, rootPublishes>>
    /\ UNCHANGED <<cwd, intact>>

\* ------------------------------------------- createDependencyAndPrepareMod

\* How prepareAndRunInit and the file operations around it can end:
\*   ok, okreq   `go mod init` wrote a go.mod (okreq: with requirements it
\*               converted from a legacy dependency file);
\*   fail        init failed and left no go.mod;
\*   failkeep    init failed and left a go.mod;
\*   chdirfail   os.Chdir failed, init was never run, the archive's go.mod
\*               (the package's manifest) is still there;
\*   unreadable  the ReadFile after init failed.
InitOutcomes == {"ok", "okreq", "fail", "failkeep", "chdirfail", "unreadable"}

\* The collaborators of one createDependencyAndPrepareMod call.
PrepareEnvs ==
    [unpack : BOOLEAN, chdir : BOOLEAN, init : InitOutcomes,
     tidy : BOOLEAN, graph : BOOLEAN]

\* The workspace go.mod after prepareAndRunInit and the fallback write of
\* prepareUnpublishedDependency.
FileAfterInit(mod, init) ==
    CASE init = "ok" -> InitContent
      [] init = "okreq" -> InitReqContent
      [] init = "failkeep" -> FullContent
      [] OTHER -> mod

\* prepareUnpublishedDependency: run init, fall back to writing the known
\* manifest, read the file back into the package.  The manifest as it was
\* on entry is the value returned (the caller's originalModContent).
prepareUnpublishedDependency(f, init) ==
    LET file == FileAfterInit(f.mod, init)
    IN [f EXCEPT !.file = file,
                 !.mod = IF init = "unreadable" THEN NilContent ELSE file,
                 !.initCalls = IF init = "chdirfail" THEN @ ELSE @ + 1]

\* useCachedMod: write the manifest into the workspace.
useCachedMod(f) == [f EXCEPT !.file = f.mod]

\* Lines 129-135: the manifest is still empty, so run tidy and remember to
\* revert to originalModContent.
TidyBranch(f, originalModContent, tidyOk) ==
    [f EXCEPT !.file = IF tidyOk THEN TidyOutput(@) ELSE @,
              !.revert = TRUE,
              !.orig = originalModContent,
              !.tidyCalls = @ + 1,
              !.snapshot = originalModContent,
              !.tidyOutput = IF tidyOk THEN TidyOutput(f.file) ELSE @]

\* populateModWithTidy works on the workspace it is given and changes into
\* it first: that succeeds unless os.Chdir fails, and a workspace that
\* prepareAndRunInit could not enter cannot be entered now either.
TidyChdir(published, e) == IF published THEN e.chdir ELSE e.init # "chdirfail"

\* The else branch of line 111: the manifest is empty.
EmptyModBranch(f, published, e) ==
    LET originalModContent == f.mod
        g == IF ~published
             THEN prepareUnpublishedDependency(f, e.init)
             ELSE [f EXCEPT !.file = f.mod]
    IN IF ~PatternMatchedNotEmpty(g.mod)
       THEN TidyBranch(g, originalModContent, e.tidy /\ TidyChdir(published, e))
       ELSE g

\* runGoModGraph: the edges, or nothing when the command fails.
runGoModGraph(id, e) == IF e.graph THEN graphOf[id[1]] ELSE {}

\* getModPathInTemp: tempDir/path@version/go.mod, the go.mod of the
\* package's own temporary workspace.
WorkPath(tmp, id) == <<"tmp", tmp[1], tmp[2], id[1], id[2], "go.mod">>

\* The working directory when runGoModGraph is reached: useCachedMod
\* (line 169) and prepareAndRunInit (line 193) change into the workspace;
\* the branch of a published package (lines 122-125) leaves that to
\* populateModWithTidy.  An os.Chdir that fails leaves the directory as it
\* was.
CwdAtGraph(f, published, e) ==
    IF PatternMatchedNotEmpty(f.mod)
    THEN IF e.chdir THEN Dir(WorkPath(f.tmp, f.id)) ELSE cwd
    ELSE IF TidyChdir(published, e) THEN Dir(WorkPath(f.tmp, f.id)) ELSE cwd

\* Line 140 and lines 226-227: the graph is computed in the working
\* directory; when it is not empty the workspace's lock file is read and
\* removed (cmd.GetSumContentAndRemove).
GraphAndSum(g, id, dir, e) ==
    [g EXCEPT !.pc = "expand",
              !.output = runGoModGraph(id, e),
              !.todo = runGoModGraph(id, e),
              !.graphDir = dir,
              !.sumBefore = SumOf(id[1]),
              !.sum = IF runGoModGraph(id, e) # {} THEN NoSum ELSE SumOf(id[1])]

\* createDependencyAndPrepareMod (lines 104-142) on frame f, `published`
\* being the cache's answer at line 117 and e the collaborators' behaviour.
createDependencyAndPrepareMod(f, published, e) ==
    IF ~e.unpack
    THEN [f EXCEPT !.pc = "expand", !.path = NoPath, !.modAtPrepare = f.mod]
    ELSE LET f1 == [f EXCEPT !.path = WorkPath(f.tmp, f.id), !.revert = FALSE,
                             !.modAtPrepare = f.mod,
                             !.publishedAtPrepare = published]
             dir == CwdAtGraph(f, published, e)
         IN IF PatternMatchedNotEmpty(f1.mod)
            THEN IF ~e.chdir
                 THEN [useCachedMod(f1) EXCEPT !.pc = "expand"]
                 ELSE GraphAndSum(useCachedMod(f1), f.id, dir, e)
            ELSE GraphAndSum(EmptyModBranch(f1, published, e), f.id, dir, e)

\* The collaborator calls createDependencyAndPrepareMod makes on this path
\* that fail under e; a collaborator the path never calls behaves normally.
PrepareFaults(f, published, e) ==
    LET nonEmpty == PatternMatchedNotEmpty(f.mod)
        runsInit == e.unpack /\ ~nonEmpty /\ ~published
        afterInit == IF runsInit THEN prepareUnpublishedDependency(f, e.init).mod
                     ELSE f.mod
        runsTidy == e.unpack /\ ~nonEmpty /\ ~PatternMatchedNotEmpty(afterInit)
        runsGraph == e.unpack /\ (nonEmpty => e.chdir)
    IN [ok |-> /\ (~e.unpack => e.chdir /\ e.init = "ok" /\ e.tidy /\ e.graph)
               /\ (~(e.unpack /\ (nonEmpty \/ published)) => e.chdir)
               /\ (~runsInit => e.init = "ok")
               /\ (~runsTidy => e.tidy)
               /\ (~runsGraph => e.graph),
        n |-> (IF e.unpack THEN 0 ELSE 1) + (IF e.chdir THEN 0 ELSE 1)
              + (IF e.init \in {"ok", "okreq"} THEN 0 ELSE 1)
              + (IF e.tidy THEN 0 ELSE 1) + (IF e.graph THEN 0 ELSE 1)]

\* Lines 60-63: createDependencyAndPrepareMod, its error only logged.
Prepare(t) ==
    /\ At(t, "prepare")
    /\ LET f == Top(t)
           published == Lookup(f.id).published
       IN \E e \in PrepareEnvs :
            /\ PrepareFaults(f, published, e).ok
            /\ faults + PrepareFaults(f, published, e).n <= FaultBudget
            /\ faults' = faults + PrepareFaults(f, published, e).n
            /\ stack' = SetTop(t, createDependencyAndPrepareMod(f, published, e))
            /\ cwd' = IF e.unpack THEN CwdAtGraph(f, published, e) ELSE cwd
            /\ intact' = IF e.unpack
                         THEN intact \cup {Dir(WorkPath(f.tmp, f.id))}
                         ELSE intact
    /\ UNCHANGED <<nthreads, graphOf, cache, total, success, failures, tstate,
                   fatal, publishCalls, childCount, skips, rootPublishes,
                   readFailures>>

\* ----------------------------------------------- setTransitiveDependencies

\* Any edge with a separator passes.
EdgeHasSeparator(module) == Len(module) >= 2

\* Line 284: the edge splits on "@" into exactly two parts.
EdgeWellFormed(module) == Len(module) = 2

\* Lines 286-287: name + ":" + module[1], the key of the edge in the cache.
EdgeId(module) ==
    <<getDependencyName(module[1]),
      IF Len(module[2]) = 1 THEN module[2][1] ELSE "?">>

\* How createDependency, shouldDownloadFromArtifactory and
\* downloadAndCreateDependency can end for one edge: an error at one of the
\* three, no Package and no error, or a Package together with the answer of
\* the existence probe.
MaterializeOutcomes ==
    {[kind |-> k, flag |-> FALSE] : k \in {"createErr", "probeErr", "downloadErr", "nil"}}
    \cup {[kind |-> "dep", flag |-> b] : b \in BOOLEAN}

\* The edges left to expand once the loop body is done with edge e.
RemainingEdges(todo, e) == todo \ {e}

\* A `return` in place of the `continue`: the expansion stops at the error.
StopAtError(todo, e) == {}

\* The edges left to expand after the Package of edge e could not be
\* materialized (the `continue` of lines 293, 300 and 307).
ContinueAfterError(todo, e) == todo \ {e}

\* A thread about to read or write the cache map.
Poised(u) ==
    /\ tstate[u] = "running"
    /\ Top(u).pc \in {"enter", "prepare", "expand", "record", "children", "mark"}

\* The Go runtime may stop the program ("concurrent map writes") when a
\* write of the map overlaps another goroutine's access to it.
MapWriteBy(t) ==
    IF \E u \in Threads \ {t} : Poised(u)
    THEN fatal' \in BOOLEAN
    ELSE fatal' = fatal

\* A lookup that never finds the ID: every edge gets a child again.
AlreadySeenNever(id) == FALSE

\* Only an ID marked published counts as seen.
AlreadySeenPublishedOnly(id) == Lookup(id).published

\* Lines 287-288: the edge's ID is a key of the cache map.
AlreadySeen(id) == Lookup(id).exists

\* Lines 282-309: take an edge of the graph (Go ranges over the map in any
\* order); skip it when malformed or already in the cache; otherwise try to
\* materialize its Package.
EdgeCheck(t) ==
    /\ At(t, "expand") /\ Top(t).todo # {}
    /\ LET f == Top(t) IN
       \E e \in f.todo :
         LET module == Split(e)
             skip(kind) == [f EXCEPT !.todo = RemainingEdges(f.todo, e),
                                     !.outcome = @ \cup {<<e, kind>>}]
         IN IF ~EdgeWellFormed(module)
            THEN stack' = SetTop(t, skip("malformed")) /\ faults' = faults
            ELSE IF AlreadySeen(EdgeId(module))
            THEN stack' = SetTop(t, skip("exists")) /\ faults' = faults
            ELSE \E m \in MaterializeOutcomes :
                   IF m.kind = "dep"
                   THEN /\ stack' = SetTop(t, [f EXCEPT !.pc = "record",
                               !.pend = [edge |-> e, id |-> EdgeId(module),
                                         flag |-> m.flag, mod |-> NoContent]])
                        /\ faults' = faults
                   ELSE /\ faults < FaultBudget
                        /\ faults' = faults + 1
                        /\ stack' = SetTop(t,
                               [skip(m.kind) EXCEPT
                                   !.todo = ContinueAfterError(f.todo, e)])
    /\ UNCHANGED <<nthreads, graphOf, cache, total, success, failures, tstate,
                   fatal, publishCalls, childCount, skips, rootPublishes,
                   readFailures>>
    /\ UNCHANGED <<cwd, intact>>

\* The ID is left out of the cache when its child is appended.
RecordedFlagNone(flag) == "absent"

\* Line 319: the value stored under the child's ID, downloadedFromArtifactory.
RecordedFlag(flag) == BoolStr(flag)

\* Lines 311-320: append the child PackageWithDeps and record its ID in the
\* cache with the answer of the existence probe.
EdgeRecord(t) ==
    /\ At(t, "record")
    /\ LET f == Top(t)
           p == f.pend
       IN /\ stack' = SetTop(t, [f EXCEPT !.pc = "expand",
                                          !.pend = NoPend,
                                          !.todo = RemainingEdges(f.todo, p.edge),
                                          !.outcome = @ \cup {<<p.edge, "child">>},
                                          !.cacheWrites = @ \cup {p.edge},
                                          !.deps = Append(@, [id |-> p.id, edge |-> p.edge])])
          /\ cache' = [cache EXCEPT ![p.id] = RecordedFlag(p.flag)]
          /\ childCount' = [childCount EXCEPT ![p.id] = @ + 1]
    /\ MapWriteBy(t)
    /\ UNCHANGED <<nthreads, graphOf, total, success, failures, tstate, faults,
                   publishCalls, skips, rootPublishes, readFailures>>
    /\ UNCHANGED <<cwd, intact>>

\* Line 236: the manifest goes to the local module cache when the package
\* is not published and the manifest is non-empty or carries the marker.
WritesGoCache(published, mod) ==
    ~published /\ (PatternMatchedNotEmpty(mod) \/ PatternMatchedGeneratedBy(mod))

\* Line 230: the lock file is put back when content was read and the file
\* had a stat.
RestoreNeeded(saved) == Len(saved.content) > 0 /\ saved.exists

\* Lines 230-232: the workspace's lock file after the expansion of a
\* non-empty graph.
RestoreSumFile(f) ==
    IF f.output # {} /\ RestoreNeeded(f.sumBefore) THEN f.sumBefore ELSE f.sum

\* The children are passed over: straight on to the revert.
AfterExpansionNoChildren(f) == "revert"

\* Lines 242-246: populateTransitive runs when setTransitiveDependencies
\* appended a child; the revert and the publish come after it.
AfterExpansion(f) == IF f.deps # <<>> THEN "populate" ELSE "revert"

\* Lines 226-244, once every edge is expanded: restore the lock file, read
\* the package's own cache entry, persist the manifest to the local module
\* cache, and go on to the children, if any.
ExpandEnd(t) ==
    /\ At(t, "expand") /\ Top(t).todo = {}
    /\ LET f == Top(t)
           published == Lookup(f.id).published
       IN stack' = SetTop(t, [f EXCEPT
              !.published = published,
              !.sum = RestoreSumFile(f),
              !.goCacheWrite = IF WritesGoCache(published, f.mod) THEN f.mod ELSE @,
              !.pc = AfterExpansion(f)])
    /\ UNCHANGED <<nthreads, graphOf, cache, total, success, failures, tstate,
                   fatal, faults, publishCalls, childCount, skips,
                   rootPublishes, readFailures>>
    /\ UNCHANGED <<cwd, intact>>

\* ------------------------------------------------------ populateTransitive

\* Only the children not marked published are counted.
TotalIncrementUnpublished(deps) ==
    Cardinality({i \in 1..Len(deps) : ~Lookup(deps[i].id).published})

\* Line 339: the argument of cache.IncrementTotal.
TotalIncrement(deps) == Len(deps)

\* Line 339: cache.IncrementTotal(len(pwd.transitiveDependencies)).
PopulateBegin(t) ==
    /\ At(t, "populate")
    /\ total' = total + TotalIncrement(Top(t).deps)
    /\ stack' = SetTop(t, [Top(t) EXCEPT !.pc = "children", !.idx = 1])
    /\ UNCHANGED <<nthreads, graphOf, cache, success, failures, tstate, fatal,
                   faults, publishCalls, childCount, skips, rootPublishes,
                   readFailures>>
    /\ UNCHANGED <<cwd, intact>>

\* The loop of line 340 moves to the next child, or ends.
NextChild(f) ==
    [f EXCEPT !.idx = @ + 1,
              !.pc = IF f.idx + 1 > Len(f.deps) THEN "revert" ELSE "children"]

\* Line 342: the child is worked on unless the cache marks it published.
ChildNeedsWork(published) == ~published

\* Lines 341-344: the child is not marked published: call its
\* PopulateModAndPublish.  The child's Package carries the manifest that
\* createDependency or the download gave it.
ChildCall(t) ==
    /\ At(t, "children")
    /\ Len(stack[t]) < MaxDepth
    /\ LET f == Top(t)
           c == f.deps[f.idx]
       IN /\ ChildNeedsWork(Lookup(c.id).published)
          /\ \E m \in CallMods :
               stack' = [stack EXCEPT ![t] =
                   Append([@ EXCEPT ![Len(@)] =
                               [f EXCEPT !.pc = "call",
                                         !.recursed = @ \cup {f.idx}]],
                          [NewFrame(c.id, m) EXCEPT
                               !.tmp = TempDir(t, Len(stack[t]) + 1)])]
    /\ UNCHANGED <<nthreads, graphOf, cache, total, success, failures, tstate,
                   fatal, faults, publishCalls, childCount, skips,
                   rootPublishes, readFailures>>
    /\ UNCHANGED <<cwd, intact>>

\* Lines 345-347: the child is marked published: count a success, skip it.
ChildSkip(t) ==
    /\ At(t, "children")
    /\ LET f == Top(t)
           c == f.deps[f.idx]
       IN /\ ~ChildNeedsWork(Lookup(c.id).published)
          /\ success' = success + 1
          /\ skips' = skips + 1
          /\ stack' = SetTop(t, NextChild([f EXCEPT !.skipped = @ \cup {f.idx}]))
    /\ UNCHANGED <<nthreads, graphOf, cache, total, failures, tstate, fatal,
                   faults, publishCalls, childCount, rootPublishes, readFailures>>
    /\ UNCHANGED <<cwd, intact>>

\* ------------------------------- publishDependencyAndPopulateTransitive

\* Line 246: revert to the manifest saved before tidy.
RevertNeeded(f) == ~f.published /\ f.revert

\* Lines 248-251: the saved manifest, with the edit message and a blank
\* line in front unless it already carries the marker.
RevertedContent(orig) ==
    IF ~ContainsMarker(orig) THEN <<GenLine, "">> \o orig ELSE orig

\* The revert writes go.mod but forgets the package's own content.
RevertModFileOnly(f) ==
    LET c == RevertedContent(f.orig)
    IN [f EXCEPT !.orig = c, !.file = c, !.goCacheWrite = f.mod]

\* Lines 252-254: the reverted manifest goes to the workspace, to the
\* package and to the local module cache.
RevertMod(f) ==
    LET c == RevertedContent(f.orig)
    IN [f EXCEPT !.orig = c, !.file = c, !.mod = c, !.goCacheWrite = c]

\* Lines 246-256.
Revert(t) ==
    /\ At(t, "revert")
    /\ LET f == Top(t)
       IN stack' = SetTop(t, [(IF RevertNeeded(f) THEN RevertMod(f) ELSE f)
                                 EXCEPT !.pc = "publish",
                                        !.reverted = RevertNeeded(f)])
    /\ UNCHANGED <<nthreads, graphOf, cache, total, success, failures, tstate,
                   fatal, faults, publishCalls, childCount, skips,
                   rootPublishes, readFailures>>
    /\ UNCHANGED <<cwd, intact>>

\* The publish call is made whatever the cache said.
PublishAlways(f) == TRUE

\* Line 258: publish unless the cache marked the package published.
PublishNeeded(f) == ~f.published

\* Package.prepareAndPublish: publish the package with its manifest to the
\* target repository and count the outcome in the cache's counters.
PackagePrepareAndPublish(ok) ==
    /\ success' = IF ok THEN success + 1 ELSE success
    /\ failures' = IF ok THEN failures ELSE failures + 1

\* Lines 258-260 and 275.
Publish(t) ==
    /\ At(t, "publish")
    /\ LET f == Top(t)
       IN IF PublishNeeded(f)
          THEN \E ok \in BOOLEAN :
                 /\ ~ok => faults < FaultBudget
                 /\ faults' = IF ok THEN faults ELSE faults + 1
                 /\ PackagePrepareAndPublish(ok)
                 /\ publishCalls' = [publishCalls EXCEPT ![f.id] = @ + 1]
                 /\ rootPublishes' = IF Len(stack[t]) = 1 THEN rootPublishes + 1
                                     ELSE rootPublishes
                 /\ stack' = SetTop(t, [f EXCEPT !.pc = "mark",
                        !.publishResult = IF ok THEN "ok" ELSE "err",
                        !.publishedContent = f.mod])
          ELSE /\ stack' = SetTop(t, [f EXCEPT !.pc = "cleanup"])
               /\ UNCHANGED <<faults, success, failures, publishCalls,
                              rootPublishes>>
    /\ UNCHANGED <<nthreads, graphOf, cache, total, tstate, fatal, childCount,
                   skips, readFailures>>
    /\ UNCHANGED <<cwd, intact>>

\* Line 276: the value stored for the package after the publish call,
\* whatever the call returned.
MarkValue(publishResult) == "true"

\* Line 276: cache.GetMap()[id] = true.
Mark(t) ==
    /\ At(t, "mark")
    /\ LET f == Top(t)
       IN /\ cache' = [cache EXCEPT ![f.id] = MarkValue(f.publishResult)]
          /\ stack' = SetTop(t, [f EXCEPT !.pc = "cleanup", !.marked = TRUE])
    /\ MapWriteBy(t)
    /\ UNCHANGED <<nthreads, graphOf, total, success, failures, tstate, faults,
                   publishCalls, childCount, skips, rootPublishes, readFailures>>
    /\ UNCHANGED <<cwd, intact>>

\* os.RemoveAll(dir): the directory is gone with all it holds.  For "."
\* the runtime decides: a Go runtime that refuses the path removes nothing,
\* one that walks it empties the working directory.
RemoveAll(dir) ==
    IF dir = Dot
    THEN {intact, intact \ {cwd}}
    ELSE {intact \ {dir}}

\* Lines 263-269 and the return: remove the workspace; the caller's loop
\* goes on, or the top-level call returns nil.
Cleanup(t) ==
    /\ At(t, "cleanup")
    /\ intact' \in RemoveAll(Dir(Top(t).path))
    /\ IF Len(stack[t]) = 1
       THEN /\ stack' = [stack EXCEPT ![t] = <<>>]
            /\ tstate' = [tstate EXCEPT ![t] = "returned"]
       ELSE /\ stack' = [stack EXCEPT ![t] =
                   [i \in 1..(Len(@) - 1) |->
                       IF i = Len(@) - 1 THEN NextChild(@[i]) ELSE @[i]]]
            /\ tstate' = tstate
    /\ UNCHANGED <<nthreads, graphOf, cache, total, success, failures, fatal,
                   faults, publishCalls, childCount, skips, rootPublishes,
                   readFailures, cwd>>

\* ---------------------------------------------------------- specification

Next ==
    \E t \in Threads :
       \/ Start(t)
       \/ Enter(t)
       \/ Prepare(t)
       \/ EdgeCheck(t)
       \/ EdgeRecord(t)
       \/ ExpandEnd(t)
       \/ PopulateBegin(t)
       \/ ChildCall(t)
       \/ ChildSkip(t)
       \/ Revert(t)
       \/ Publish(t)
       \/ Mark(t)
       \/ Cleanup(t)

Spec == Init /\ [][Next]_vars

\* The program keeps running: a step that can be taken is taken.
FairSpec == Spec /\ WF_vars(Next)

\* Every top-level call has returned.
AllReturned == \A t \in Threads : t <= nthreads => tstate[t] = "returned"

\* ------------------------------------------------------------ properties

\* Every frame of every call in progress.
Frames == UNION {{stack[t][i] : i \in 1..Len(stack[t])} : t \in Threads}

\* The recursion stays below the cap on its own: one frame for the root and
\* at most one child per ID.
DepthWithinBound == \A t \in Threads : Len(stack[t]) <= Cardinality(Ids) + 1

\* C1: in a single top-level run, Package.prepareAndPublish is called at
\* most once for each package ID, the root's included.
C1_PublishedAtMostOnce ==
    nthreads = 1 => \A id \in Ids : publishCalls[id] <= 1

\* The child PackageWithDeps constructed so far, over all IDs.
RECURSIVE SumOver(_, _)
SumOver(count, S) ==
    IF S = {} THEN 0
    ELSE LET x == CHOOSE y \in S : TRUE IN count[x] + SumOver(count, S \ {x})

ChildrenConstructed == SumOver(childCount, Ids)

\* C2: a single top-level run over any of the graphs, the cyclic ones
\* included, makes finitely many resolver invocations (the root's and one
\* per child constructed, never more children than there are IDs) and
\* returns: the root reaches its Cleanup step.
C2_RunTerminates ==
    /\ [][nthreads = 1 => ChildrenConstructed' <= Cardinality(Ids)]_vars
    /\ <>(nthreads = 1 => AllReturned)

\* A run over the cycle A -> B -> A has returned after constructing a child
\* for B and, below it, a child for A.
C2_CycleRunReturned ==
    /\ nthreads = 1 /\ AllReturned
    /\ graphOf["B"] = {Edge("A")}
    /\ childCount[<<"A", "v1">>] = 1 /\ childCount[<<"B", "v1">>] = 1

\* C3: a frame has set its package's cache entry to true only after its
\* publish call returned without error.
C3_MarkedOnlyAfterSuccess ==
    \A f \in Frames : f.marked => f.publishResult = "ok"

\* C4: a cache entry that is true stays true in every step, whichever
\* thread takes it.
C4_TrueStaysTrue ==
    [][\A id \in Ids : cache[id] = "true" => cache'[id] = "true"]_vars

\* A frame that ran tidy for a package the cache did not mark published,
\* and that has called publish.
TidyBootstrapped(f) ==
    f.tidyCalls > 0 /\ ~f.publishedAtPrepare /\ f.publishResult # "none"

\* C5: a package that needed tidy is published with the manifest saved
\* before tidy, with or without the edit message in front; that is also the
\* last content written to the local module cache; it is not tidy's output.
C5_ManifestOfRecord ==
    \A f \in Frames :
        TidyBootstrapped(f) =>
            /\ f.publishedContent \in {f.snapshot, <<GenLine, "">> \o f.snapshot}
            /\ f.goCacheWrite = f.publishedContent
            /\ f.publishedContent # f.tidyOutput

\* A package that arrived with a bare manifest, and whose go.mod tidy then
\* rewrote, is published with that manifest behind the edit message.
C5_TidiedAndPublished ==
    \E f \in Frames :
        /\ TidyBootstrapped(f)
        /\ f.tidyOutput # NoContent
        /\ f.snapshot = BareContent
        /\ f.publishedContent = <<GenLine, "", "module">>

Prepared(f) == f.pc \notin {"enter", "prepare"} /\ f.path # NoPath

C7_CounterConservation ==
    (nthreads = 1 /\ AllReturned) => total = success + failures + skips

\* C7 amended: after a full single top-level run, successes plus failures
\* equal the total plus the publish calls made for the root itself plus the
\* failed reads of a stored manifest; the skipped children are counted
\* among the successes.
C7_CountersBalance ==
    (nthreads = 1 /\ AllReturned) =>
        /\ success + failures = total + rootPublishes + readFailures
        /\ skips <= success

\* A run has returned after skipping one child and publishing another.
C7_RunWithSkipAndPublish ==
    /\ nthreads = 1 /\ AllReturned
    /\ skips >= 1 /\ total >= 2 /\ failures >= 1

\* C8: no ID gets a child PackageWithDeps from two branches.
C8_OneChildPerId == \A id \in Ids : childCount[id] <= 1

\* The edge has exactly one separator.
OneSeparator(e) == Cardinality({i \in 1..Len(e) : e[i] = "@"}) = 1

\* The frame is past setTransitiveDependencies.
Expanded(f) == f.pc \notin {"enter", "prepare", "expand", "record"}

\* The edges a frame has disposed of.
Handled(f) == {o[1] : o \in f.outcome}

\* C9: an edge without exactly one separator is skipped: it gets no child
\* and no cache entry, and the expansion still handles every other edge of
\* the graph and goes on.
C9_MalformedEdgeSkipped ==
    \A f \in Frames :
        /\ \A o \in f.outcome : ~OneSeparator(o[1]) => o[2] = "malformed"
        /\ \A i \in 1..Len(f.deps) : OneSeparator(f.deps[i].edge)
        /\ \A e \in f.cacheWrites : OneSeparator(e)
        /\ f.pc = "record" => OneSeparator(f.pend.edge)
        /\ Expanded(f) => Handled(f) = f.output

\* An expansion has skipped both malformed edges of its graph and built a
\* child for the good one.
C9_MalformedSkippedGoodKept ==
    \E f \in Frames :
        /\ Expanded(f)
        /\ <<<<"bad">>, "malformed">> \in f.outcome
        /\ <<<<"C", "@", "v1", "@", "x">>, "malformed">> \in f.outcome
        /\ Len(f.deps) = 1 /\ f.deps[1].edge = Edge("B")

MaterializeErrors == {"createErr", "probeErr", "downloadErr"}

\* The edges whose Package could not be materialized.
FailedEdges(f) == {o[1] : o \in {x \in f.outcome : x[2] \in MaterializeErrors}}

\* C10: an edge whose Package cannot be materialized gets no child and no
\* cache entry; every other edge is still expanded; the parent still goes
\* through all its children and, unless marked published, publishes.
C10_FailedEdgeSkipped ==
    \A f \in Frames :
        /\ \A e \in FailedEdges(f) :
             /\ e \notin f.cacheWrites
             /\ \A i \in 1..Len(f.deps) : f.deps[i].edge # e
        /\ Expanded(f) =>
             /\ Handled(f) = f.output
             /\ \A o \in f.outcome :
                  o[2] = "child" <=> \E i \in 1..Len(f.deps) : f.deps[i].edge = o[1]
        /\ f.pc = "cleanup" =>
             /\ f.recursed \cup f.skipped = 1..Len(f.deps)
             /\ ~f.published => f.publishResult # "none"

\* A parent lost one edge to a materialization error, built and recursed
\* into a child for another edge, and published itself.
C10_FailedEdgeSiblingExpanded ==
    \E f \in Frames :
        /\ f.pc = "cleanup" /\ FailedEdges(f) # {}
        /\ f.recursed # {} /\ f.publishResult = "ok"

\* C11: a top-level call on a package that is not in the cache and whose
\* manifest is non-empty has, when it reaches its Cleanup step, run neither
\* init nor tidy for it, has (its Unpack having worked) no revert flag set,
\* has caused exactly one publish call for the package, and the package's
\* cache flag is true.
C11_NonEmptyPublishedOnce ==
    \A f \in Frames :
        (/\ nthreads = 1 /\ f = stack[1][1] /\ f.pc = "cleanup"
         /\ ~f.seenAtEntry /\ PatternMatchedNotEmpty(f.modAtPrepare))
        => /\ f.initCalls = 0 /\ f.tidyCalls = 0
           /\ f.path # NoPath => ~f.revert
           /\ publishCalls[f.id] = 1
           /\ cache[f.id] = "true"

\* The frame is in populateTransitive: about to call, or calling, the
\* PopulateModAndPublish of its children.
Populating(f) == f.pc \in {"populate", "children", "call"}

\* C12: the step that appends a child stores the child's ID in the cache
\* with the answer of the existence probe, and while a frame calls
\* PopulateModAndPublish on its children every one of them is in the cache.
C12_RecordedBeforeRecursion ==
    /\ [](\A f \in Frames :
            Populating(f) =>
                \A i \in 1..Len(f.deps) : cache[f.deps[i].id] # "absent")
    /\ [][\A t \in Threads :
            (/\ tstate[t] = "running" /\ Top(t).pc = "record"
             /\ stack'[t] # stack[t])
            => cache'[Top(t).pend.id] = BoolStr(Top(t).pend.flag)]_vars

\* A frame is inside the call of its first child while its second child,
\* not yet worked on, is already in the cache with the probe's answer.
C12_SiblingRecordedDuringCall ==
    \E f \in Frames :
        /\ f.pc = "call" /\ Len(f.deps) = 2 /\ f.recursed = {1}
        /\ cache[f.deps[2].id] = "false"

\* The failures of a repository operation among the outcomes of an edge:
\* the existence probe and the download.
RepositoryErrors == {"probeErr", "downloadErr"}

\* C13: a step in which the existence probe or the download of an edge
\* fails increments the cache's failure counter.
C13_RepositoryFailureCounted ==
    [][\A t \in Threads :
         (/\ tstate[t] = "running" /\ Len(stack'[t]) = Len(stack[t])
          /\ \E o \in stack'[t][Len(stack'[t])].outcome \ Top(t).outcome :
                o[2] \in RepositoryErrors)
         => failures' = failures + 1]_vars

\* The children of the frame handled so far, by call or by skip.
Processed(f) == f.recursed \cup f.skipped

\* C14: for every node, nothing is called, reverted or published while the
\* graph is expanded; the children are handled one after the other, each
\* call finished before the next begins, with no revert and no publish of
\* the node meanwhile; the revert and then the node's own publish come only
\* when every child has been handled; and the node returns, its workspace
\* removed, from the Cleanup step that follows them.
C14_StepsInOrder ==
    /\ [](\A t \in Threads : \A i \in 1..Len(stack[t]) :
            LET f == stack[t][i] IN
            /\ (i < Len(stack[t])) <=> (f.pc = "call")
            /\ f.pc \in {"enter", "prepare", "expand", "record"} =>
                 Processed(f) = {} /\ ~f.reverted /\ f.publishResult = "none"
            /\ Populating(f) =>
                 /\ Handled(f) = f.output
                 /\ ~f.reverted /\ f.publishResult = "none"
                 /\ Processed(f) = CASE f.pc = "populate" -> {}
                                     [] f.pc = "children" -> 1..(f.idx - 1)
                                     [] f.pc = "call" -> 1..f.idx
            /\ f.pc \in {"revert", "publish", "mark", "cleanup"} =>
                 Handled(f) = f.output /\ Processed(f) = 1..Len(f.deps)
            /\ f.pc \in {"revert", "publish"} => f.publishResult = "none"
            /\ f.pc = "revert" => ~f.reverted
            /\ f.publishResult # "none" => f.pc \in {"mark", "cleanup"})
    /\ [][\A t \in Threads :
            (tstate[t] = "running" /\ Len(stack'[t]) < Len(stack[t]))
            => /\ Top(t).pc = "cleanup"
               /\ Top(t).path # NoPath => Dir(Top(t).path) \notin intact']_vars

\* A node has expanded its graph, called a child, reverted its manifest and
\* published, and is at its Cleanup step with its workspace still there.
C14_AllStagesDone ==
    \E f \in Frames :
        /\ f.pc = "cleanup" /\ f.recursed # {} /\ f.reverted
        /\ f.publishResult = "ok" /\ Dir(f.path) \in intact

\* C15: in a single top-level run, a child PackageWithDeps is constructed
\* only for an ID that is absent from the cache in that step; a step of the
\* expansion leaves every entry that is present as it is; and an edge found
\* present is not among the children.
C15_ChildOnlyWhenAbsent ==
    /\ [][nthreads = 1 =>
            \A id \in Ids :
                childCount'[id] > childCount[id] => cache[id] = "absent"]_vars
    /\ [][\A t \in Threads :
            (/\ nthreads = 1 /\ tstate[t] = "running"
             /\ Top(t).pc \in {"expand", "record"} /\ stack'[t] # stack[t])
            => \A id \in Ids : cache[id] # "absent" => cache'[id] = cache[id]]_vars
    /\ [](nthreads = 1 =>
            \A f \in Frames : \A o \in f.outcome :
                o[2] = "exists" => \A i \in 1..Len(f.deps) : f.deps[i].edge # o[1])

\* An expansion has passed over an edge whose ID was in the cache with flag
\* false (seen, not published) and the flag is still false.
C15_SeenEdgeSkipped ==
    \E f \in Frames : \E o \in f.outcome :
        /\ nthreads = 1 /\ o[2] = "exists"
        /\ cache[EdgeId(Split(o[1]))] = "false"

\* The lines of a manifest that carry the edit marker.
MarkerLines(c) == {i \in 1..Len(c) : GeneratedByLine(c[i])}

\* C16: a frame that ran the revert was not marked published and had its
\* revert flag set by the tidy branch of its own call; what it wrote back
\* is the snapshot taken before tidy, unchanged when the snapshot carries
\* the marker and behind the edit message and a blank line when it does
\* not, so that the marker is there exactly once.
C16_RevertOnlyAfterOwnTidy ==
    \A f \in Frames :
        f.reverted =>
            /\ ~f.published
            /\ f.tidyCalls > 0
            /\ f.mod = IF ContainsMarker(f.snapshot) THEN f.snapshot
                       ELSE <<GenLine, "">> \o f.snapshot
            /\ Cardinality(MarkerLines(f.mod)) = 1

\* C17: while a non-empty graph is expanded the workspace has no lock file,
\* and once the expansion is over the workspace holds the lock file it
\* held before, one without content included; with an empty graph the lock
\* file is never touched.
C17_LockFileRestored ==
    \A f \in Frames :
        /\ (f.pc \in {"expand", "record"} /\ f.output # {}) => ~f.sum.exists
        /\ (f.pc \in {"expand", "record"} /\ f.output = {}) => f.sum = f.sumBefore
        /\ Expanded(f) => f.sum = f.sumBefore

\* C18: whenever runGoModGraph was reached, the working directory was the
\* node's own workspace.
C18_GraphInOwnWorkspace ==
    \A f \in Frames : f.graphDir # NoPath => f.graphDir = Dir(f.path)

\* The frame is past createDependencyAndPrepareMod and its Unpack failed.
UnpackFailed(f) == f.pc \notin {"enter", "prepare"} /\ f.path = NoPath

\* C19: a frame whose Unpack failed makes no publish call and does not set
\* its package's cache entry to true.
C19_NoPublishAfterFailedUnpack ==
    \A f \in Frames : UnpackFailed(f) => f.publishResult = "none" /\ ~f.marked

\* C20: a Cleanup step removes at most the workspace its own frame
\* unpacked, and nothing when the frame's Unpack failed: the start
\* directory and the workspaces of the other frames stay as they are.
C20_CleanupRemovesOwnWorkspaceOnly ==
    [][\A t \in Threads :
         (tstate[t] = "running" /\ Top(t).pc = "cleanup"
          /\ stack'[t] # stack[t])
         => intact \ intact' \subseteq
                (IF Top(t).path = NoPath THEN {} ELSE {Dir(Top(t).path)})]_vars

====
